---- MODULE Spec2Model ----
(***************************************************************************)
(* nostr-kv: a local-first key-value store that publishes full snapshots   *)
(* to Nostr relays and merges the snapshots of other writers key by key    *)
(* (last write wins).  The model follows createStore of src/index.js       *)
(* (the current version, lines 949-1406).                                  *)
(*                                                                         *)
(* Storage (idb-keyval over IndexedDB): every localGet/localSet/localDel   *)
(* takes effect when it is issued (IndexedDB runs the transactions of one  *)
(* object store in the order they were created) and its promise resolves   *)
(* in a later task.  An await is therefore a suspension point: the code up *)
(* to and including the issue of the awaited operation is one action, the  *)
(* continuation is the next one.                                           *)
(*                                                                         *)
(* Timers (setTimeout) count down in milliseconds and fire when they reach *)
(* zero; Tick lets time pass, never beyond the next expiry.  Date.now() is *)
(* the device's wall clock, one per store, which only moves forward; the   *)
(* clocks of different devices are not synchronised.                       *)
(***************************************************************************)
EXTENDS Integers, Sequences, FiniteSets, TLC

\* ------------------------------------------------------------------ bounds
MaxOps == 2          \* set/del calls in one behaviour, all stores together
MaxClockTicks == 1   \* advances of one device's wall clock
MaxFail == 2         \* cap of publishRetryCount (consecutive failed publishes)
MaxCreates == 1      \* createStore calls on one database after the first
MaxCalls == 2        \* onChange calls, and onReceive calls, of one store
MaxStrays == 2       \* events of a writer outside the model sent to one store
MaxClock == 4100     \* wall clocks stop here when they move with the timers, ms
MaxBackoff == 7       \* failed attempts in a row when the relays accept nothing

\* ------------------------------------------------------- program constants
DEFAULT_DEBOUNCE == 1010
BASE_RETRY_DELAY == 1000
debounce == DEFAULT_DEBOUNCE
maxRetryDelay == 60000

\* ------------------------------------------------------------ domains
Stores == {"A", "B", "C"}
Pair == {"A", "B"}
KeySeq == <<"k1", "k2">>   \* the keys, in the order IndexedDB lists them
Keys == {KeySeq[i] : i \in 1..Len(KeySeq)}
LAST_SYNC_KEY == "_nkvmeta_lastSync"
MetaKey == "_nkvmeta_app"  \* a key with the internal prefix that a caller chose
MetaKeys == {LAST_SYNC_KEY, MetaKey}
AllKeySeq == <<MetaKey, LAST_SYNC_KEY>> \o KeySeq
AllKeys == {AllKeySeq[i] : i \in 1..Len(AllKeySeq)}
Values == {"v1", "v2"}
Null == "null"
namespace == "ns"          \* the option of createStore (the same for all stores)
Tags == {namespace, "other"}
Outsider == "X"            \* a writer that is not one of Stores
Undefined == "undefined"
RetryCounts == {0, 1, 2}
Relays == {"r1", "r2"}     \* the relays option of createStore
NoReplies == [r \in Relays |-> "none"]
ClockStep == BASE_RETRY_DELAY
TickStep == DEFAULT_DEBOUNCE \div 2

\* what localGet returns for a key that is not in the database
Absent == [value |-> Undefined, lastModified |-> -1]
MkEntry(v, t) == [value |-> v, lastModified |-> t]
NoData == [k \in AllKeys |-> Absent]

VARIABLES
  db,                 \* [store][key]: the entry in IndexedDB, or Absent
  clock,              \* [store]: Date.now() of the device, ms
  maxRetryCount,      \* the option of createStore (the same for all stores)
  writeq,             \* [store]: set/del calls whose promise is not resolved yet
  syncPromise,        \* [store]: TRUE iff syncPromise/syncResolve are not null
  debounceTimer,      \* [store]: ms until the debounce timer fires, -1 = null
  retryTimers,        \* [store]: ms until each pending retry setTimeout fires
  publishRetryCount,  \* [store]
  inflight,           \* [store]: the publishToNostr calls that are running
  relay,              \* [author]: the writer's live (replaceable) event
  inbox,              \* [store]: events delivered by the subscription, not handled yet
  subscribed,         \* [store]: the store exists and its subscription is open
  handlers,           \* [store]: the onevent calls that are running
  changeListeners,    \* [store]: the array of registered callbacks
  receiveResolve,     \* [store]: TRUE iff receiveResolve is not null
  lastSyncTime,       \* [store]
  metaLastSync,       \* [store]: the value stored under LAST_SYNC_KEY, 0 = none
  sinceCall,          \* [store]: ms since the last set/del call, capped at debounce
  sincePersist,       \* [store]: ms since a local write last resolved, capped alike
  durable,            \* [store][key]: what local durability promises for get(key)
  hist                \* [store]: history (observation) variables, see Hist0

vars == <<db, clock, maxRetryCount, writeq, syncPromise, debounceTimer,
          retryTimers, publishRetryCount, inflight, relay, inbox, subscribed,
          handlers, changeListeners, receiveResolve, lastSyncTime,
          metaLastSync, sinceCall, sincePersist, durable, hist>>

\* d is the event's d tag; readable: nip04.decrypt with the key of the
\* replica group and JSON.parse succeed on its content; seq (how many local
\* writes the snapshot was taken after) is history
NoEvent == [author |-> "none", data |-> NoData, createdAt |-> -1, seq |-> 0,
            d |-> namespace, readable |-> TRUE]

\* durable[s][k] while no set(k, v) is owed anything; deletedAt is Date.now()
\* of the del(k) that removed the entry, -1 if the key was not deleted
NoPromise == [value |-> Undefined, op |-> 0, resolved |-> FALSE, deletedAt |-> -1]

\* hist[s].wrote[k]: n set/del calls that wrote key k, the last of them was
\* write number w of the store and stored entry (Absent: a del)
NoWrite == [n |-> 0, w |-> 0, entry |-> Absent]

\* A burst of writes: n writes so far, the last of them write number last;
\* fires publish attempts started by the debounce timer since the burst began,
\* the first of them delay ms after a local write last resolved and with a
\* snapshot taken after snap writes.
NoBurst == [n |-> 0, last |-> 0, fires |-> 0, delay |-> -1, snap |-> 0]

\* hist[s].lastNotify before any notification: the array before the loop,
\* the callbacks called, whether one threw, the key and value they were given,
\* the callbacks unsubscribed by then, whether key is the first changed key of its event and
\* the changed keys the exception left out
NoNotify == [registered |-> <<>>, called |-> <<>>, threw |-> FALSE,
             key |-> Undefined, value |-> Undefined, removed |-> {},
             first |-> FALSE, dropped |-> <<>>]

\* History of one store.  None of it is read by the program's actions.
Hist0 ==
  [ops |-> 0,            \* set/del calls issued
   writes |-> 0,         \* set/del calls whose local write succeeded
   persisted |-> 0,      \* of those, how many have resolved (scheduleSync went on)
   attempts |-> 0,       \* publishToNostr calls
   fires |-> 0,          \* publishToNostr calls made by the debounce timer
   acks |-> 0,           \* publishes acknowledged by a relay
   fails |-> 0,          \* publishes that no relay accepted
   snapMax |-> 0,        \* most writes contained in the snapshot of an attempt
   resTrue |-> 0,        \* sync promises resolved true
   resFalse |-> 0,       \* sync promises resolved false
   resSnap |-> 0,        \* writes in the snapshot of the attempt that last resolved
   resWrites |-> 0,      \* writes made when the sync promise was last resolved
   owed |-> FALSE,       \* a write resolved during an attempt, none started since
   followUps |-> 0,      \* attempts started while one was owed
   awaited |-> FALSE,    \* the pending sync promise covers a resolved write
   callBurst |-> NoBurst,     \* calls on an idle store, less than debounce apart
   persistBurst |-> NoBurst,  \* writes that resolved before the timer fired
   creates |-> 0,        \* createStore calls on this database after the first
   calls |-> 0,          \* createStore calls with a namespace option given or not
   unnamed |-> 0,        \* of those, the calls without a namespace
   backlog |-> {},       \* the stored events the last createStore was sent
   closedAt |-> -1,      \* attempts made when close() was called, -1: not closed
   listeners |-> 0,      \* onChange calls
   registered |-> {},    \* the callbacks onChange(callback) has registered
   removed |-> {},       \* of those, the ones whose unsubscribe function was called
   removedAgain |-> {},  \* ... and called a second time
   lateCalls |-> 0,      \* calls of a callback after it was unsubscribed
   lastNotify |-> NoNotify,   \* the last changeListeners.forEach
   receives |-> 0,       \* onReceive calls
   recvPending |-> 0,    \* onReceive promises not resolved yet
   recvStale |-> 0,      \* ... when an onevent call last ended
   delivered |-> 0,      \* events of the outside writer sent to the store
   events |-> 0,         \* onevent calls that went past the first checks
   strays |-> 0,         \* onevent calls with an event that IsStray
   replied |-> {},       \* <<attempt, relay, accepted>> of the relays' answers
   garbled |-> 0,        \* the onevent call that last ended on a null of decryptData
   seen |-> {},          \* the events of other writers processed to the end
   wrote |-> [k \in AllKeys |-> NoWrite]]   \* the set/del calls on each key

\* ------------------------------------------------------------ helpers
Min(a, b) == IF a < b THEN a ELSE b
Max(a, b) == IF a > b THEN a ELSE b

RECURSIVE Pow2(_)
Pow2(n) == IF n <= 0 THEN 1 ELSE 2 * Pow2(n - 1)

\* a delay that doubles without a cap
retryDelayUncapped(count) == BASE_RETRY_DELAY * Pow2(count - 1)

\* index.js:1134  Math.min(BASE_RETRY_DELAY * 2 ** (count - 1), maxRetryDelay)
retryDelay(count) == Min(BASE_RETRY_DELAY * Pow2(count - 1), maxRetryDelay)

\* variants of shouldRetry: one attempt too many; no unlimited mode
shouldRetryInclusive(count) == maxRetryCount = 0 \/ count <= maxRetryCount
shouldRetryBounded(count) == count < maxRetryCount

\* index.js:1130
shouldRetry(count) == maxRetryCount = 0 \/ count < maxRetryCount

\* get(key), index.js:1288
Get(s, k) == db[s][k].value

\* variant of SnapshotOf: only the first entry is published
SnapshotOfFirst(s) == [k \in AllKeys |-> IF k = KeySeq[1] THEN db[s][k] ELSE Absent]

\* variant of SnapshotOf: a retry sends what was read for an earlier attempt,
\* without the keys written since
SnapshotOfCached(s) ==
  [k \in AllKeys |-> IF publishRetryCount[s] > 0 /\ hist[s].wrote[k].w > hist[s].snapMax
                      THEN Absent ELSE db[s][k]]

\* variant of startsWithMeta: only the cursor key is internal
startsWithMetaExact(key) == key = LAST_SYNC_KEY

\* key.startsWith('_nkvmeta') (index.js:1070, 1210), on the keys of the model
startsWithMeta(key) == key \in MetaKeys

\* idbEntries(customStore), index.js:1063: the entries of the database, and
\* under LAST_SYNC_KEY the number that onevent has stored (index.js:1192),
\* which has no meta
idbEntries(s) ==
  [k \in AllKeys |->
     IF k = LAST_SYNC_KEY /\ db[s][k] = Absent /\ metaLastSync[s] > 0
     THEN [value |-> metaLastSync[s], lastModified |-> -1]
     ELSE db[s][k]]

\* the data object built by publishToNostr, index.js:1063-1078: internal keys
\* are skipped, and so is an entry without meta
SnapshotOf(s) ==
  [k \in AllKeys |->
     LET entry == idbEntries(s)[k]
     IN IF startsWithMeta(k) THEN Absent
        ELSE IF entry # Absent /\ entry.lastModified >= 0 THEN entry
        ELSE Absent]

TotalOps == hist["A"].ops + hist["B"].ops + hist["C"].ops

\* the publish scheduler of store s has nothing pending
SchedIdle(s) ==
  /\ writeq[s] = <<>>
  /\ debounceTimer[s] = -1
  /\ retryTimers[s] = <<>>
  /\ inflight[s] = {}

\* history: the burst after a call that is write number w (ok) or fails
CallBurst(s, ok, w) ==
  LET b == hist[s].callBurst
  IN IF ~ok THEN NoBurst
     ELSE IF SchedIdle(s) THEN [NoBurst EXCEPT !.n = 1, !.last = w]
     ELSE IF b.n > 0 /\ sinceCall[s] < debounce
          THEN [b EXCEPT !.n = @ + 1, !.last = w]
     ELSE NoBurst

\* history: the burst after write number w has resolved
PersistBurst(s, w) ==
  LET b == hist[s].persistBurst
  IN IF b.n > 0 /\ debounceTimer[s] > 0 THEN [b EXCEPT !.n = @ + 1, !.last = w]
     ELSE IF debounceTimer[s] = -1 /\ retryTimers[s] = <<>> /\ inflight[s] = {}
          THEN [NoBurst EXCEPT !.n = 1, !.last = w]
     ELSE NoBurst

\* history: the burst after the debounce timer has started an attempt
FiredBurst(s, b) ==
  IF b.n = 0 THEN b
  ELSE [b EXCEPT !.fires = @ + 1,
                 !.delay = IF b.fires = 0 THEN sincePersist[s] ELSE @,
                 !.snap = IF b.fires = 0 THEN hist[s].writes ELSE @]

\* The state after createStore has run for the stores in open; the others
\* do not exist yet.
InitWith(open) ==
  /\ subscribed = [s \in Stores |-> s \in open]
  /\ db = [s \in Stores |-> NoData]
  /\ clock = [s \in Stores |-> ClockStep]
  /\ maxRetryCount \in RetryCounts
  /\ writeq = [s \in Stores |-> <<>>]
  /\ syncPromise = [s \in Stores |-> FALSE]
  /\ debounceTimer = [s \in Stores |-> -1]
  /\ retryTimers = [s \in Stores |-> <<>>]
  /\ publishRetryCount = [s \in Stores |-> 0]
  /\ inflight = [s \in Stores |-> {}]
  /\ relay = [s \in Stores |-> NoEvent]
  /\ inbox = [s \in Stores |-> {}]
  /\ handlers = [s \in Stores |-> {}]
  /\ changeListeners = [s \in Stores |-> <<>>]
  /\ receiveResolve = [s \in Stores |-> FALSE]
  /\ lastSyncTime = [s \in Stores |-> 0]
  /\ metaLastSync = [s \in Stores |-> 0]
  /\ sinceCall = [s \in Stores |-> debounce]
  /\ sincePersist = [s \in Stores |-> debounce]
  /\ durable = [s \in Stores |-> [k \in AllKeys |-> NoPromise]]
  /\ hist = [s \in Stores |-> Hist0]

Init == InitWith(Stores)

\* ------------------------------------------------------ local operations

\* scheduleSync up to "await after" (index.js:1037-1046): the sync promise is
\* created if there is none; the rest waits for the local write.
\* set(key, value), index.js:1301-1316.  ok = FALSE: idbSet rejects.
SetCall(s, k, v, ok) ==
  /\ TotalOps < MaxOps
  /\ LET op == hist[s].ops + 1
         w == hist[s].writes + (IF ok THEN 1 ELSE 0)
     IN /\ db' = IF ok THEN [db EXCEPT ![s][k] = MkEntry(v, clock[s])] ELSE db
        /\ writeq' = [writeq EXCEPT ![s] = Append(@, [ok |-> ok, op |-> op, w |-> w])]
        /\ durable' = [durable EXCEPT ![s][k] =
                         IF ok THEN [NoPromise EXCEPT !.value = v, !.op = op]
                               ELSE NoPromise]
        /\ hist' = [hist EXCEPT ![s].ops = op, ![s].writes = w,
              ![s].callBurst = CallBurst(s, ok, w),
              ![s].wrote[k] = IF ok THEN [n |-> @.n + 1, w |-> w,
                                          entry |-> MkEntry(v, clock[s])]
                                    ELSE @]
  /\ syncPromise' = [syncPromise EXCEPT ![s] = TRUE]
  /\ sinceCall' = [sinceCall EXCEPT ![s] = 0]
  /\ UNCHANGED <<clock, maxRetryCount, changeListeners, receiveResolve,
                 subscribed, debounceTimer, retryTimers,
                 publishRetryCount, inflight, relay, inbox, handlers,
                 lastSyncTime, metaLastSync, sincePersist>>

\* del(key), index.js:1324-1328: localDel removes the entry.
DelCall(s, k, ok) ==
  /\ TotalOps < MaxOps
  /\ LET op == hist[s].ops + 1
         w == hist[s].writes + (IF ok THEN 1 ELSE 0)
     IN /\ db' = IF ok THEN [db EXCEPT ![s][k] = Absent] ELSE db
        /\ writeq' = [writeq EXCEPT ![s] = Append(@, [ok |-> ok, op |-> op, w |-> w])]
        /\ durable' = [durable EXCEPT ![s][k] =
                         IF ok THEN [NoPromise EXCEPT !.deletedAt = clock[s]]
                               ELSE NoPromise]
        /\ hist' = [hist EXCEPT ![s].ops = op, ![s].writes = w,
              ![s].callBurst = CallBurst(s, ok, w),
              ![s].wrote[k] = IF ok THEN [n |-> @.n + 1, w |-> w, entry |-> Absent]
                                    ELSE @]
  /\ syncPromise' = [syncPromise EXCEPT ![s] = TRUE]
  /\ sinceCall' = [sinceCall EXCEPT ![s] = 0]
  /\ UNCHANGED <<clock, maxRetryCount, changeListeners, receiveResolve,
                 subscribed, debounceTimer, retryTimers,
                 publishRetryCount, inflight, relay, inbox, handlers,
                 lastSyncTime, metaLastSync, sincePersist>>

\* The promise of the oldest pending local write settles.  Resolved: the
\* caller's set/del resolves and scheduleSync goes on after "await after"
\* (index.js:1046-1055): the debounce timer is cleared and armed again.
\* Rejected: "await after" throws, scheduleSync stops there.
\* variants of the timer scheduleSync leaves behind: nothing is scheduled
\* while an attempt is in flight; a pending timer is kept, not reset
scheduleSyncTimerBusy(s) == IF inflight[s] # {} THEN debounceTimer[s] ELSE debounce
scheduleSyncTimerKeep(s) == IF debounceTimer[s] >= 0 THEN debounceTimer[s] ELSE debounce

\* index.js:1047-1055: clearTimeout, then setTimeout(..., debounce)
scheduleSyncTimer(s) == debounce

PersistDone(s) ==
  /\ writeq[s] # <<>>
  /\ LET e == Head(writeq[s])
     IN /\ writeq' = [writeq EXCEPT ![s] = Tail(@)]
        /\ debounceTimer' = IF e.ok THEN [debounceTimer EXCEPT ![s] = scheduleSyncTimer(s)]
                                    ELSE debounceTimer
        /\ durable' = [durable EXCEPT ![s] =
               [k \in AllKeys |-> IF e.ok /\ @[k].op = e.op
                                  THEN [@[k] EXCEPT !.resolved = TRUE] ELSE @[k]]]
        /\ sincePersist' = IF e.ok THEN [sincePersist EXCEPT ![s] = 0]
                                   ELSE sincePersist
        /\ hist' = IF e.ok
                   THEN [hist EXCEPT ![s].persisted = e.w,
                           ![s].owed = @ \/ inflight[s] # {},
                           ![s].awaited = syncPromise[s],
                           ![s].persistBurst = PersistBurst(s, e.w)]
                   ELSE hist
  /\ UNCHANGED <<db, clock, maxRetryCount, changeListeners, receiveResolve,
                 subscribed, syncPromise, retryTimers,
                 publishRetryCount, inflight, relay, inbox, handlers,
                 lastSyncTime, metaLastSync, sinceCall>>

\* Date.now() of one device moves on.
ClockTick(s) ==
  /\ clock[s] < (1 + MaxClockTicks) * ClockStep
  /\ clock' = [clock EXCEPT ![s] = @ + ClockStep]
  /\ UNCHANGED <<db, maxRetryCount, changeListeners, receiveResolve,
                 subscribed, writeq, syncPromise, debounceTimer,
                 retryTimers, publishRetryCount, inflight, relay, inbox,
                 handlers, lastSyncTime, metaLastSync, sinceCall, sincePersist, durable, hist>>

\* close(), index.js:1377-1380: pool.close(relays) ends the subscription.
\* Nothing else is touched: the timers stay armed.
Close(s) ==
  /\ subscribed[s]
  /\ subscribed' = [subscribed EXCEPT ![s] = FALSE]
  /\ inbox' = [inbox EXCEPT ![s] = {}]
  /\ hist' = [hist EXCEPT ![s].closedAt = hist[s].attempts]
  /\ UNCHANGED <<db, clock, maxRetryCount, changeListeners, receiveResolve, writeq, syncPromise, debounceTimer,
                 retryTimers, publishRetryCount, inflight, relay, handlers,
                 lastSyncTime, metaLastSync, sinceCall, sincePersist, durable>>

\* the events a relay sends to a new subscription whose filter has this since
\* (index.js:1162-1171; no since when lastSyncTime is 0)
Stored(since) ==
  {relay[o] : o \in {x \in Stores : /\ relay[x] # NoEvent
                                    /\ since = 0 \/ relay[x].createdAt >= since}}

\* createStore on the database of s (index.js:949-1012, 1275-1280), for the
\* first time or after the process that ran the previous instance has ended:
\* the variables of the closure start afresh, lastSyncTime is read from
\* LAST_SYNC_KEY and the subscription is opened.
CreateStore(s) ==
  /\ hist[s].creates < MaxCreates
  /\ writeq[s] = <<>>
  /\ handlers[s] = {}
  /\ syncPromise' = [syncPromise EXCEPT ![s] = FALSE]
  /\ debounceTimer' = [debounceTimer EXCEPT ![s] = -1]
  /\ retryTimers' = [retryTimers EXCEPT ![s] = <<>>]
  /\ publishRetryCount' = [publishRetryCount EXCEPT ![s] = 0]
  /\ inflight' = [inflight EXCEPT ![s] = {}]
  /\ lastSyncTime' = [lastSyncTime EXCEPT ![s] = metaLastSync[s]]
  /\ subscribed' = [subscribed EXCEPT ![s] = TRUE]
  /\ inbox' = [inbox EXCEPT ![s] = Stored(metaLastSync[s])]
  /\ changeListeners' = [changeListeners EXCEPT ![s] = <<>>]
  /\ receiveResolve' = [receiveResolve EXCEPT ![s] = FALSE]
  /\ hist' = [hist EXCEPT ![s].creates = @ + 1, ![s].closedAt = -1,
                          ![s].backlog = Stored(metaLastSync[s]),
                          ![s].owed = FALSE, ![s].awaited = FALSE,
                          ![s].callBurst = NoBurst, ![s].persistBurst = NoBurst]
  /\ UNCHANGED <<db, clock, maxRetryCount, writeq, relay, handlers,
                 metaLastSync, sinceCall, sincePersist, durable>>

\* variant of rejects: any namespace is taken
rejectsNone(ns) == FALSE

\* index.js:959  if (!namespace) throw new Error('Namespace is required')
rejects(ns) == ns \in {Undefined, Null, ""}

\* createStore({namespace: ns, ...}) on the database of s (index.js:949-1012):
\* the check of the namespace is the first statement.
CreateStoreWith(s, ns) ==
  /\ hist[s].calls < MaxCreates
  /\ IF rejects(ns)
     THEN /\ hist' = [hist EXCEPT ![s].calls = @ + 1,
                ![s].unnamed = @ + (IF ns = namespace THEN 0 ELSE 1)]
          /\ UNCHANGED <<db, clock, maxRetryCount, writeq, syncPromise,
                         debounceTimer, retryTimers, publishRetryCount,
                         inflight, relay, inbox, subscribed, handlers,
                         changeListeners, receiveResolve, lastSyncTime,
                         metaLastSync, sinceCall, sincePersist, durable>>
     ELSE /\ writeq[s] = <<>>
          /\ handlers[s] = {}
          /\ syncPromise' = [syncPromise EXCEPT ![s] = FALSE]
          /\ debounceTimer' = [debounceTimer EXCEPT ![s] = -1]
          /\ retryTimers' = [retryTimers EXCEPT ![s] = <<>>]
          /\ publishRetryCount' = [publishRetryCount EXCEPT ![s] = 0]
          /\ inflight' = [inflight EXCEPT ![s] = {}]
          /\ lastSyncTime' = [lastSyncTime EXCEPT ![s] = metaLastSync[s]]
          /\ subscribed' = [subscribed EXCEPT ![s] = TRUE]
          /\ inbox' = [inbox EXCEPT ![s] =
                IF ns = namespace THEN Stored(metaLastSync[s]) ELSE {}]
          /\ changeListeners' = [changeListeners EXCEPT ![s] = <<>>]
          /\ receiveResolve' = [receiveResolve EXCEPT ![s] = FALSE]
          /\ hist' = [hist EXCEPT ![s].calls = @ + 1,
                ![s].unnamed = @ + (IF ns = namespace THEN 0 ELSE 1),
                ![s].closedAt = -1,
                ![s].backlog = IF ns = namespace THEN Stored(metaLastSync[s]) ELSE {},
                ![s].owed = FALSE, ![s].awaited = FALSE,
                ![s].callBurst = NoBurst, ![s].persistBurst = NoBurst]
          /\ UNCHANGED <<db, clock, maxRetryCount, writeq, relay, handlers,
                         metaLastSync, sinceCall, sincePersist, durable>>

\* ------------------------------------------------------------- publishing

\* publishToNostr is called (index.js:1061).  idbEntries is issued at once,
\* so the snapshot is the database of this moment; the call then waits for
\* the entries and for encryptData.
StartPublish(s, byDebounce) ==
  /\ inflight' = [inflight EXCEPT ![s] = @ \cup
        {[id |-> hist[s].attempts + 1, phase |-> "built",
          data |-> SnapshotOf(s), seq |-> hist[s].writes, createdAt |-> -1,
          replies |-> NoReplies]}]
  /\ hist' = [hist EXCEPT ![s].attempts = @ + 1,
        ![s].fires = @ + (IF byDebounce THEN 1 ELSE 0),
        ![s].snapMax = Max(@, hist[s].writes),
        ![s].owed = FALSE,
        ![s].followUps = @ + (IF hist[s].owed THEN 1 ELSE 0),
        ![s].callBurst = IF byDebounce THEN FiredBurst(s, @) ELSE @,
        ![s].persistBurst = IF byDebounce THEN FiredBurst(s, @) ELSE @]

\* The debounce timer fires (index.js:1051-1054).
DebounceFire(s) ==
  /\ debounceTimer[s] = 0
  /\ debounceTimer' = [debounceTimer EXCEPT ![s] = -1]
  /\ StartPublish(s, TRUE)
  /\ UNCHANGED <<db, clock, maxRetryCount, changeListeners, receiveResolve,
                 subscribed, writeq, syncPromise, retryTimers,
                 publishRetryCount, relay, inbox, handlers, lastSyncTime,
                 metaLastSync, sinceCall, sincePersist, durable>>

RemoveAt(seq, i) == SubSeq(seq, 1, i - 1) \o SubSeq(seq, i + 1, Len(seq))

\* A retry timer fires (index.js:1142, setTimeout(publishToNostr, retryDelay)).
RetryFire(s, i) ==
  /\ i \in 1..Len(retryTimers[s])
  /\ retryTimers[s][i] = 0
  /\ retryTimers' = [retryTimers EXCEPT ![s] = RemoveAt(@, i)]
  /\ StartPublish(s, FALSE)
  /\ UNCHANGED <<db, clock, maxRetryCount, changeListeners, receiveResolve,
                 subscribed, writeq, syncPromise, debounceTimer,
                 publishRetryCount, relay, inbox, handlers, lastSyncTime,
                 metaLastSync, sinceCall, sincePersist, durable>>

\* After the entries are read and encrypted: the event is stamped with the
\* second of Date.now(), signed and handed to pool.publish (index.js:1084-1104).
Sign(s, a) ==
  /\ a \in inflight[s]
  /\ a.phase = "built"
  /\ inflight' = [inflight EXCEPT ![s] = (@ \ {a}) \cup
        {[a EXCEPT !.phase = "sent", !.createdAt = clock[s] \div 1000]}]
  /\ UNCHANGED <<db, clock, maxRetryCount, changeListeners, receiveResolve,
                 subscribed, writeq, syncPromise, debounceTimer,
                 retryTimers, publishRetryCount, relay, inbox, handlers,
                 lastSyncTime, metaLastSync, sinceCall, sincePersist, durable, hist>>

EventOf(s, a) ==
  [author |-> s, data |-> a.data, createdAt |-> a.createdAt, seq |-> a.seq,
   d |-> namespace, readable |-> TRUE]

\* At least one relay accepts the event (index.js:1107-1122).  The relay keeps
\* it as the writer's live event unless it holds a newer one, and hands it to
\* every subscription of the replica group, the author's own included.
Ack(s, a) ==
  /\ a \in inflight[s]
  /\ a.phase = "sent"
  /\ inflight' = [inflight EXCEPT ![s] = @ \ {a}]
  /\ publishRetryCount' = [publishRetryCount EXCEPT ![s] = 0]
  /\ syncPromise' = [syncPromise EXCEPT ![s] = FALSE]
  /\ relay' = IF a.createdAt >= relay[s].createdAt
                THEN [relay EXCEPT ![s] = EventOf(s, a)] ELSE relay
  /\ inbox' = [o \in Stores |->
        IF subscribed[o] THEN inbox[o] \cup {EventOf(s, a)} ELSE inbox[o]]
  /\ hist' = [hist EXCEPT
        ![s].acks = @ + 1,
        ![s].awaited = FALSE,
        ![s].resTrue = @ + (IF syncPromise[s] THEN 1 ELSE 0),
        ![s].resSnap = IF syncPromise[s] THEN a.seq ELSE @,
        ![s].resWrites = IF syncPromise[s] THEN hist[s].writes ELSE @]
  /\ UNCHANGED <<db, clock, maxRetryCount, changeListeners, receiveResolve,
                 subscribed, writeq, debounceTimer, retryTimers,
                 handlers, lastSyncTime, metaLastSync, sinceCall, sincePersist, durable>>

\* No relay accepts the event: the catch block of publishToNostr
\* (index.js:1123-1154).
Catch(s, a) ==
  /\ a \in inflight[s]
  /\ a.phase = "sent"
  /\ inflight' = [inflight EXCEPT ![s] = @ \ {a}]
  /\ LET count == publishRetryCount[s] + 1
     IN IF shouldRetry(count)
        THEN /\ publishRetryCount' = [publishRetryCount EXCEPT ![s] = count]
             /\ retryTimers' = [retryTimers EXCEPT ![s] = Append(@, retryDelay(count))]
             /\ hist' = [hist EXCEPT ![s].fails = @ + 1]
             /\ UNCHANGED syncPromise
        ELSE /\ publishRetryCount' = [publishRetryCount EXCEPT ![s] = 0]
             /\ syncPromise' = [syncPromise EXCEPT ![s] = FALSE]
             /\ hist' = [hist EXCEPT
                   ![s].awaited = FALSE,
                   ![s].fails = @ + 1,
                   ![s].resFalse = @ + (IF syncPromise[s] THEN 1 ELSE 0),
                   ![s].resSnap = IF syncPromise[s] THEN a.seq ELSE @,
                   ![s].resWrites = IF syncPromise[s] THEN hist[s].writes ELSE @]
             /\ UNCHANGED retryTimers
  /\ UNCHANGED <<db, clock, maxRetryCount, changeListeners, receiveResolve,
                 subscribed, writeq, debounceTimer, relay, inbox,
                 handlers, lastSyncTime, metaLastSync, sinceCall, sincePersist, durable>>

\* ... for at most MaxFail failures in a row
Reject(s, a) ==
  /\ publishRetryCount[s] < MaxFail
  /\ Catch(s, a)

\* pool.publish(relays, event) returns one promise per relay (index.js:1104).
\* Relay r settles its promise of attempt a: ok = TRUE when it has accepted
\* the event, FALSE when it has refused it or cannot be reached.
Reply(s, a, r, ok) ==
  /\ a \in inflight[s]
  /\ a.phase = "sent"
  /\ a.replies[r] = "none"
  /\ inflight' = [inflight EXCEPT ![s] = (@ \ {a}) \cup
        {[a EXCEPT !.replies[r] = IF ok THEN "ok" ELSE "fail"]}]
  /\ hist' = [hist EXCEPT ![s].replied = @ \cup {<<a.id, r, ok>>}]
  /\ UNCHANGED <<db, clock, maxRetryCount, changeListeners, receiveResolve,
                 subscribed, writeq, syncPromise, debounceTimer,
                 retryTimers, publishRetryCount, relay, inbox, handlers,
                 lastSyncTime, metaLastSync, sinceCall, sincePersist, durable>>

\* a promise that is fulfilled only when every relay has accepted
PromiseAll(replies) ==
  IF \E r \in Relays : replies[r] = "fail" THEN "rejected"
  ELSE IF \A r \in Relays : replies[r] = "ok" THEN "fulfilled"
  ELSE "pending"

\* Promise.any over the relays' promises (index.js:1107): fulfilled with the
\* first relay that accepts, rejected when every relay has failed.
PromiseAny(replies) ==
  IF \E r \in Relays : replies[r] = "ok" THEN "fulfilled"
  ELSE IF \A r \in Relays : replies[r] = "fail" THEN "rejected"
  ELSE "pending"

\* The await of Promise.any returns (index.js:1107-1122) ...
Published(s, a) ==
  /\ PromiseAny(a.replies) = "fulfilled"
  /\ Ack(s, a)

\* ... or throws (index.js:1107-1110, 1123-1154).
PublishFailed(s, a) ==
  /\ PromiseAny(a.replies) = "rejected"
  /\ Reject(s, a)

\* ------------------------------------------------------------------- time
SeqRange(seq) == {seq[i] : i \in 1..Len(seq)}
ArmedTimers == {debounceTimer[s] : s \in {x \in Stores : debounceTimer[x] >= 0}}
                 \cup UNION {SeqRange(retryTimers[s]) : s \in Stores}

\* d milliseconds pass on every device; no expired timer is kept waiting.
Tick(d) ==
  /\ d > 0
  /\ \A t \in ArmedTimers : d <= t
  /\ \/ ArmedTimers # {}
     \/ \E s \in Stores : sinceCall[s] < debounce \/ sincePersist[s] < debounce
  /\ debounceTimer' = [s \in Stores |->
        IF debounceTimer[s] >= 0 THEN debounceTimer[s] - d ELSE -1]
  /\ retryTimers' = [s \in Stores |->
        [i \in 1..Len(retryTimers[s]) |-> retryTimers[s][i] - d]]
  /\ sinceCall' = [s \in Stores |-> Min(debounce, sinceCall[s] + d)]
  /\ sincePersist' = [s \in Stores |-> Min(debounce, sincePersist[s] + d)]
  /\ UNCHANGED <<db, clock, maxRetryCount, changeListeners, receiveResolve,
                 subscribed, writeq, syncPromise,
                 publishRetryCount, inflight, relay, inbox, handlers,
                 lastSyncTime, metaLastSync, durable, hist>>

\* d milliseconds pass on every device and every wall clock moves on by d.
Elapse(d) ==
  /\ d > 0
  /\ \A t \in ArmedTimers : d <= t
  /\ ArmedTimers # {}
  /\ \A s \in Stores : clock[s] + d <= MaxClock
  /\ clock' = [s \in Stores |-> clock[s] + d]
  /\ debounceTimer' = [s \in Stores |->
        IF debounceTimer[s] >= 0 THEN debounceTimer[s] - d ELSE -1]
  /\ retryTimers' = [s \in Stores |->
        [i \in 1..Len(retryTimers[s]) |-> retryTimers[s][i] - d]]
  /\ sinceCall' = [s \in Stores |-> Min(debounce, sinceCall[s] + d)]
  /\ sincePersist' = [s \in Stores |-> Min(debounce, sincePersist[s] + d)]
  /\ UNCHANGED <<db, maxRetryCount, changeListeners, receiveResolve,
                 subscribed, writeq, syncPromise,
                 publishRetryCount, inflight, relay, inbox, handlers,
                 lastSyncTime, metaLastSync, durable, hist>>

\* -------------------------------------------------------------- receiving

\* created_at of the events of the outside writer: seconds on a clock like
\* the stores' own, or a time far ahead (created_at is whatever its author
\* wrote; FarAhead is more than any Date.now() of the model, in ms)
FarAhead == MaxClock + 1000
CreatedAts == {1, 2, FarAhead}

\* The events signed by author that a relay may send: of this namespace or
\* another one, encrypted with the key of the replica group or not, holding
\* one entry.
EventsFrom(author) ==
  {[author |-> author,
    data |-> [k \in AllKeys |-> IF k = KeySeq[1] THEN MkEntry("v2", t * 1000)
                                                  ELSE Absent],
    createdAt |-> t, seq |-> 0, d |-> d, readable |-> r] :
      t \in CreatedAts, d \in Tags, r \in BOOLEAN}

OutsideEvents == EventsFrom(Outsider)

\* The events of the outside writer whose snapshot holds, besides an entry of
\* the first key, entries under the internal keys.
InternalEvents ==
  {[author |-> Outsider,
    data |-> [k \in AllKeys |-> IF k = KeySeq[1] \/ k \in MetaKeys
                                  THEN MkEntry("v2", t * 1000) ELSE Absent],
    createdAt |-> t, seq |-> 0, d |-> namespace, readable |-> TRUE] :
      t \in CreatedAts \ {FarAhead}}

\* The events of the outside writer whose caller has called set(key, null):
\* the snapshot holds an entry whose value is null.
NullEvents ==
  {[author |-> Outsider,
    data |-> [k \in AllKeys |-> IF k = KeySeq[1] THEN MkEntry(Null, t * 1000)
                                  ELSE Absent],
    createdAt |-> t, seq |-> 0, d |-> namespace, readable |-> TRUE] :
      t \in CreatedAts \ {FarAhead}}

\* the events an earlier instance of store s has published
Echoes(s) == {e \in EventsFrom(s) : e.d = namespace /\ e.readable}

\* The subscription of s is sent the event e (index.js:1174-1175); a relay is
\* not relied on to apply the filter.
Deliver(s, e) ==
  /\ subscribed[s]
  /\ hist[s].delivered < MaxStrays
  /\ e \notin inbox[s]
  /\ inbox' = [inbox EXCEPT ![s] = @ \cup {e}]
  /\ hist' = [hist EXCEPT ![s].delivered = @ + 1]
  /\ UNCHANGED <<db, clock, maxRetryCount, changeListeners, receiveResolve,
                 subscribed, writeq, syncPromise, debounceTimer, retryTimers,
                 publishRetryCount, inflight, relay, handlers, lastSyncTime,
                 metaLastSync, sinceCall, sincePersist, durable>>


\* index.js:1226  !current || !current.meta || current.meta.lastModified < timestamp
remoteWins(current, timestamp) ==
  current = Absent \/ current.lastModified < timestamp

\* a write that goes through scheduleSync, as set does (index.js:1039-1043,
\* 1314): a sync promise is pending afterwards
localSetSynced(s) == TRUE

\* the sync promise of s after localSet or localDel (index.js:991-992): they
\* are idbSet and idbDel on the store's database and do not call
\* scheduleSync, so it is as before
localSet(s) == syncPromise[s]

\* Object.entries(decrypted): the keys the snapshot holds, in order, less
\* the internal keys that the merge loop skips (index.js:1208-1210)
KeysOf(data) ==
  SelectSeq(AllKeySeq, LAMBDA k : data[k] # Absent /\ ~startsWithMeta(k))

\* The onevent call h of store s goes on from the top of the merge loop
\* (index.js:1208) with its todo list: localGet of the next key is issued, or,
\* after the last key, the listeners are told (index.js:1251) or the call ends.
Advance(s, h, dbNow) ==
  IF h.todo # <<>>
  THEN [h EXCEPT !.pc = "get", !.current = dbNow[s][Head(h.todo)]]
  ELSE IF h.tell # <<>>
  THEN [h EXCEPT !.pc = "notify", !.current = dbNow[s][Head(h.tell)]]
  ELSE [h EXCEPT !.pc = "done"]

\* receiveResolve after the onevent call has gone from h to h2: the end of
\* the call resolves a pending onReceive promise (index.js:1266-1269)
afterReceive(s, h2) == IF h2.pc = "done" THEN FALSE ELSE receiveResolve[s]

\* h becomes h2; a call that is done leaves (index.js:1263-1270).  H is the
\* history of s so far.
Settle(s, h, h2, H) ==
  /\ handlers' = [handlers EXCEPT ![s] =
        IF h2.pc = "done" THEN @ \ {h} ELSE (@ \ {h}) \cup {h2}]
  /\ receiveResolve' = [receiveResolve EXCEPT ![s] = afterReceive(s, h2)]
  /\ hist' = [hist EXCEPT ![s] =
        IF h2.pc = "done"
        THEN LET got == receiveResolve[s] /\ ~afterReceive(s, h2)
                 left == H.recvPending - (IF got THEN 1 ELSE 0)
             IN [H EXCEPT !.seen = @ \cup {h.ev},
                          !.recvPending = left, !.recvStale = left]
        ELSE H]

\* an event of store s itself, or of another namespace
IsStray(s, e) == e.author = s \/ e.d # namespace

\* variant of skips: only the store's own events are skipped
skipsOwn(s, e) == e.author = s

\* index.js:1177 (event.pubkey === authPubkey) and index.js:1181-1182
\* (!dTag || dTag[1] !== namespace): onevent returns at once
skips(s, e) == e.author = s \/ e.d # namespace

\* variant of decryptData: the content is used although decrypt failed
decryptDataAny(e) == <<e.data>>

\* decryptData, index.js:1024-1032: the parsed object as a one-element
\* sequence; <<>> is null, when nip04.decrypt or JSON.parse throws
decryptData(e) == IF e.readable THEN <<e.data>> ELSE <<>>

\* lastSyncTime after an event created at createdAt (index.js:1189-1190)
cursorAfter(cursor, createdAt) == IF createdAt > cursor THEN createdAt ELSE cursor

\* onevent is called with an event of the subscription (index.js:1175-1195):
\* own events and events of another namespace are skipped; lastSyncTime moves
\* up to the event's created_at and Date.now() is stored under LAST_SYNC_KEY;
\* then the call waits for decryptData.
OnEvent(s, e) ==
  /\ e \in inbox[s]
  /\ inbox' = [inbox EXCEPT ![s] = @ \ {e}]
  /\ IF skips(s, e)
     THEN /\ hist' = [hist EXCEPT ![s].strays = @ + (IF IsStray(s, e) THEN 1 ELSE 0)]
          /\ UNCHANGED <<handlers, lastSyncTime, metaLastSync>>
     ELSE /\ handlers' = [handlers EXCEPT ![s] = @ \cup
                {[id |-> hist[s].events + 1, ev |-> e, pc |-> "decrypt",
                  todo |-> <<>>, current |-> Absent,
                  changedKeys |-> <<>>, tell |-> <<>>]}]
          /\ hist' = [hist EXCEPT ![s].events = @ + 1,
                ![s].strays = @ + (IF IsStray(s, e) THEN 1 ELSE 0)]
          /\ lastSyncTime' = [lastSyncTime EXCEPT ![s] = cursorAfter(@, e.createdAt)]
          /\ metaLastSync' = IF e.createdAt > lastSyncTime[s]
                THEN [metaLastSync EXCEPT ![s] = clock[s]] ELSE metaLastSync
  /\ UNCHANGED <<db, clock, maxRetryCount, subscribed, writeq, syncPromise,
                 debounceTimer, retryTimers, publishRetryCount, inflight, relay,
                 sinceCall, sincePersist, changeListeners, receiveResolve,
                 durable>>

\* decryptData has resolved (index.js:1195-1217): with null the call returns
\* from inside the try block, past the code that resolves receiveResolve;
\* if not, the merge loop starts.
Decrypted(s, h) ==
  /\ h \in handlers[s]
  /\ h.pc = "decrypt"
  /\ LET decrypted == decryptData(h.ev)
     IN IF decrypted = <<>>
        THEN /\ handlers' = [handlers EXCEPT ![s] = @ \ {h}]
             /\ hist' = [hist EXCEPT ![s].garbled = h.id]
             /\ UNCHANGED receiveResolve
        ELSE Settle(s, h, Advance(s, [h EXCEPT !.todo = KeysOf(decrypted[1])], db),
                    hist[s])
  /\ UNCHANGED <<db, clock, maxRetryCount, subscribed, writeq, syncPromise,
                 debounceTimer, retryTimers, publishRetryCount, inflight, relay,
                 inbox, lastSyncTime, metaLastSync, sinceCall, sincePersist, changeListeners, durable>>

\* localGet has resolved with h.current (index.js:1217-1245): if the remote
\* entry wins, localDel (value null) or localSet is issued and the key is
\* pushed on changedKeys; if not, the loop goes on to the next key.
Compare(s, h) ==
  /\ h \in handlers[s]
  /\ h.pc = "get"
  /\ LET key == Head(h.todo)
         entry == h.ev.data[key]
         rest == Tail(h.todo)
     IN IF remoteWins(h.current, entry.lastModified)
        THEN /\ db' = [db EXCEPT ![s][key] =
                    IF entry.value = Null THEN Absent ELSE entry]
             /\ durable' = [durable EXCEPT ![s][key] =
                    IF @.deletedAt >= 0
                    THEN IF entry.lastModified >= @.deletedAt THEN NoPromise ELSE @
                    ELSE IF entry.lastModified > db[s][key].lastModified
                    THEN NoPromise ELSE @]
             /\ syncPromise' = [syncPromise EXCEPT ![s] = localSet(s)]
             /\ Settle(s, h, [h EXCEPT !.pc = "put",
                                       !.changedKeys = Append(@, key)], hist[s])
        ELSE /\ Settle(s, h, Advance(s, [h EXCEPT !.todo = rest,
                      !.tell = IF rest = <<>> THEN h.changedKeys ELSE @], db),
                    hist[s])
             /\ UNCHANGED <<db, durable, syncPromise>>
  /\ UNCHANGED <<clock, maxRetryCount, subscribed, writeq,
                 debounceTimer, retryTimers, publishRetryCount, inflight, relay,
                 inbox, lastSyncTime, metaLastSync, sinceCall, sincePersist,
                 changeListeners>>

\* localSet/localDel has resolved: the loop goes on (index.js:1208), and after
\* the last key the changed keys are read back one by one (index.js:1251-1253).
AfterPut(s, h) ==
  /\ h \in handlers[s]
  /\ h.pc = "put"
  /\ LET rest == Tail(h.todo)
     IN Settle(s, h, Advance(s, [h EXCEPT !.todo = rest,
           !.tell = IF rest = <<>> THEN h.changedKeys ELSE @], db), hist[s])
  /\ UNCHANGED <<db, clock, maxRetryCount, subscribed, writeq, syncPromise,
                 debounceTimer, retryTimers, publishRetryCount, inflight, relay,
                 inbox, lastSyncTime, metaLastSync, sinceCall, sincePersist, changeListeners, durable>>

\* changeListeners.forEach(listener => listener(key, value)), index.js:1257:
\* the indices 1..len of the array as it is when each is reached; a one-shot
\* callback splices itself out of the array (index.js:1349-1357); a callback
\* that throws ends the loop.
RECURSIVE ForEach(_, _, _, _)
ForEach(cur, i, len, called) ==
  IF i > len THEN [list |-> cur, called |-> called, threw |-> FALSE]
  ELSE IF i > Len(cur) THEN ForEach(cur, i + 1, len, called)
  ELSE LET l == cur[i]
       IN IF l.throws
          THEN [list |-> cur, called |-> Append(called, l.id), threw |-> TRUE]
          ELSE ForEach(IF l.once THEN RemoveAt(cur, i) ELSE cur, i + 1, len,
                       Append(called, l.id))

\* The read-back of a changed key has resolved (index.js:1253-1262): the
\* listeners are called with the key and the value read, then the next
\* changed key is read or the call ends.  An exception of a listener leaves
\* both loops for the catch clause (index.js:1263).
Notify(s, h) ==
  /\ h \in handlers[s]
  /\ h.pc = "notify"
  /\ LET key == Head(h.tell)
         value == IF h.current = Absent THEN Null ELSE h.current.value
         r == ForEach(changeListeners[s], 1, Len(changeListeners[s]), <<>>)
         H == [hist[s] EXCEPT
                 !.lastNotify = [registered |-> changeListeners[s],
                                 called |-> r.called, threw |-> r.threw,
                                 key |-> key, value |-> value,
                                 removed |-> hist[s].removed,
                                 first |-> Len(h.tell) = Len(h.changedKeys),
                                 dropped |-> IF r.threw THEN Tail(h.tell) ELSE <<>>],
                 !.lateCalls = @ + Cardinality({n \in 1..Len(r.called) :
                                                  r.called[n] \in hist[s].removed})]
     IN /\ changeListeners' = [changeListeners EXCEPT ![s] = r.list]
        /\ IF r.threw
           THEN Settle(s, h, [h EXCEPT !.pc = "done"], H)
           ELSE Settle(s, h, Advance(s, [h EXCEPT !.tell = Tail(@)], db), H)
  /\ UNCHANGED <<db, clock, maxRetryCount, subscribed, writeq, syncPromise,
                 debounceTimer, retryTimers, publishRetryCount, inflight, relay,
                 inbox, lastSyncTime, metaLastSync, sinceCall, sincePersist, durable>>

\* onChange(callback), index.js:1335-1345, and onChange(), index.js:1347-1361
\* (once).  throws: the callback throws when it is called.
OnChange(s, once, throws) ==
  /\ hist[s].listeners < MaxCalls
  /\ once => ~throws
  /\ LET id == hist[s].listeners + 1
     IN /\ changeListeners' = [changeListeners EXCEPT ![s] =
              Append(@, [id |-> id, once |-> once, throws |-> throws])]
        /\ hist' = [hist EXCEPT ![s].listeners = id,
              ![s].registered = IF once THEN @ ELSE @ \cup {id}]
  /\ UNCHANGED <<db, clock, maxRetryCount, subscribed, writeq, syncPromise,
                 debounceTimer, retryTimers, publishRetryCount, inflight, relay,
                 inbox, lastSyncTime, metaLastSync, sinceCall, sincePersist, handlers, receiveResolve, durable>>

\* variant of unsubscribed: the last callback is removed
unsubscribedLast(list, id) == SubSeq(list, 1, Len(list) - 1)

\* the array after the function returned by onChange(callback) has run
\* (index.js:1339-1344): indexOf, then splice if the callback is there
unsubscribed(list, id) == SelectSeq(list, LAMBDA l : l.id # id)

Unsubscribe(s, id) ==
  /\ id \in hist[s].registered
  /\ id \notin hist[s].removedAgain
  /\ changeListeners' = [changeListeners EXCEPT ![s] = unsubscribed(@, id)]
  /\ hist' = [hist EXCEPT ![s].removed = @ \cup {id},
        ![s].removedAgain = IF id \in hist[s].removed THEN @ \cup {id} ELSE @]
  /\ UNCHANGED <<db, clock, maxRetryCount, subscribed, writeq, syncPromise,
                 debounceTimer, retryTimers, publishRetryCount, inflight, relay,
                 inbox, lastSyncTime, metaLastSync, sinceCall, sincePersist, handlers, receiveResolve, durable>>

\* onReceive(), index.js:1368-1372: receiveResolve is overwritten.
OnReceive(s) ==
  /\ hist[s].receives < MaxCalls
  /\ receiveResolve' = [receiveResolve EXCEPT ![s] = TRUE]
  /\ hist' = [hist EXCEPT ![s].receives = @ + 1, ![s].recvPending = @ + 1]
  /\ UNCHANGED <<db, clock, maxRetryCount, subscribed, writeq, syncPromise,
                 debounceTimer, retryTimers, publishRetryCount, inflight, relay,
                 inbox, lastSyncTime, metaLastSync, sinceCall, sincePersist, handlers, changeListeners, durable>>

\* ------------------------------------------------------ specifications

\* One store and its publish scheduler, under every outcome of the local
\* writes and of the relays.  Remote events are not handled here: onevent
\* reads and writes none of the scheduler's variables.  Nor does the
\* scheduler read the keys and values that are written, so one of each will
\* do.
Writer == "A"
WriterValues == {"v1"}
OneKey == {"k1"}

NextSched ==
  \/ \E k \in OneKey, v \in WriterValues, ok \in BOOLEAN : SetCall(Writer, k, v, ok)
  \/ \E k \in OneKey, ok \in BOOLEAN : DelCall(Writer, k, ok)
  \/ PersistDone(Writer)
  \/ DebounceFire(Writer)
  \/ \E i \in 1..Len(retryTimers[Writer]) : RetryFire(Writer, i)
  \/ \E a \in inflight[Writer] : Sign(Writer, a)
  \/ \E a \in inflight[Writer] : Ack(Writer, a)
  \/ \E a \in inflight[Writer] : Reject(Writer, a)
  \/ \E d \in {TickStep} \cup ArmedTimers : Tick(d)

SpecSched == Init /\ [][NextSched]_vars

\* Two stores of one replica group that exchange their snapshots, with local
\* storage that works and relays that accept every event.
InitSync == InitWith(Pair) /\ maxRetryCount = 0

NextSync ==
  \/ \E s \in Pair, k \in OneKey, v \in Values : SetCall(s, k, v, TRUE)
  \/ \E s \in Pair, k \in OneKey : DelCall(s, k, TRUE)
  \/ \E s \in Pair : PersistDone(s)
  \/ \E s \in Pair : ClockTick(s)
  \/ \E s \in Pair : DebounceFire(s)
  \/ \E s \in Pair : \E a \in inflight[s] : Sign(s, a)
  \/ \E s \in Pair : \E a \in inflight[s] : Ack(s, a)
  \/ \E s \in Pair : \E e \in inbox[s] : OnEvent(s, e)
  \/ \E s \in Pair : \E h \in handlers[s] : Decrypted(s, h)
  \/ \E s \in Pair : \E h \in handlers[s] : Compare(s, h)
  \/ \E s \in Pair : \E h \in handlers[s] : AfterPut(s, h)
  \/ \E s \in Pair : \E h \in handlers[s] : Notify(s, h)
  \/ \E d \in {TickStep} \cup ArmedTimers : Tick(d)

SpecSync == InitSync /\ [][NextSync]_vars

\* Everything together.
Next ==
  \/ \E s \in Stores, k \in Keys, v \in Values, ok \in BOOLEAN : SetCall(s, k, v, ok)
  \/ \E s \in Stores, k \in Keys, ok \in BOOLEAN : DelCall(s, k, ok)
  \/ \E s \in Stores : PersistDone(s)
  \/ \E s \in Stores : ClockTick(s)
  \/ \E s \in Stores : DebounceFire(s)
  \/ \E s \in Stores : \E i \in 1..Len(retryTimers[s]) : RetryFire(s, i)
  \/ \E s \in Stores : \E a \in inflight[s] : Sign(s, a)
  \/ \E s \in Stores : \E a \in inflight[s] : Ack(s, a)
  \/ \E s \in Stores : \E a \in inflight[s] : Reject(s, a)
  \/ \E s \in Stores : \E e \in inbox[s] : OnEvent(s, e)
  \/ \E s \in Stores : \E h \in handlers[s] : Decrypted(s, h)
  \/ \E s \in Stores : \E h \in handlers[s] : Compare(s, h)
  \/ \E s \in Stores : \E h \in handlers[s] : AfterPut(s, h)
  \/ \E s \in Stores : \E h \in handlers[s] : Notify(s, h)
  \/ \E s \in Stores : Close(s)
  \/ \E s \in Stores : CreateStore(s)
  \/ \E s \in Stores, ns \in {namespace, Undefined} : CreateStoreWith(s, ns)
  \/ \E s \in Stores, once \in BOOLEAN, throws \in BOOLEAN : OnChange(s, once, throws)
  \/ \E s \in Stores : \E id \in hist[s].registered : Unsubscribe(s, id)
  \/ \E s \in Stores : OnReceive(s)
  \/ \E s \in Stores : \E e \in OutsideEvents \cup Echoes(s) : Deliver(s, e)
  \/ \E d \in {TickStep} \cup ArmedTimers : Tick(d)
  \/ \E d \in ArmedTimers : Elapse(d)

Spec == Init /\ [][Next]_vars

\* A writer that sets each key once, whose publishes may fail (each is
\* retried once) and whose store may be created again on the same database,
\* and a peer that only receives.  Time jumps from one timer expiry to the
\* next.
Reader == "B"

InitPeer == Init /\ maxRetryCount = 2

NextPeer ==
  \/ \E k \in Keys, v \in Values :
        hist[Writer].wrote[k].n = 0 /\ SetCall(Writer, k, v, TRUE)
  \/ PersistDone(Writer)
  \/ DebounceFire(Writer)
  \/ \E i \in 1..Len(retryTimers[Writer]) : RetryFire(Writer, i)
  \/ \E a \in inflight[Writer] : Sign(Writer, a)
  \/ \E a \in inflight[Writer] : Ack(Writer, a)
  \/ \E a \in inflight[Writer] : Reject(Writer, a)
  \/ CreateStore(Writer)
  \/ \E e \in inbox[Reader] : OnEvent(Reader, e)
  \/ \E h \in handlers[Reader] : Decrypted(Reader, h)
  \/ \E h \in handlers[Reader] : Compare(Reader, h)
  \/ \E h \in handlers[Reader] : AfterPut(Reader, h)
  \/ \E h \in handlers[Reader] : Notify(Reader, h)
  \/ \E d \in ArmedTimers : Tick(d)

SpecPeer == InitPeer /\ [][NextPeer]_vars

\* One store whose publishes may fail and are retried: a first write, and
\* further writes once an attempt has failed and while its retry is pending.
InitRetry == Init /\ maxRetryCount = 0

NextRetry ==
  \/ \E k \in Keys, v \in WriterValues :
        /\ hist[Writer].ops = 0 \/ retryTimers[Writer] # <<>>
        /\ SetCall(Writer, k, v, TRUE)
  \/ \E k \in OneKey :
        /\ retryTimers[Writer] # <<>>
        /\ DelCall(Writer, k, TRUE)
  \/ PersistDone(Writer)
  \/ DebounceFire(Writer)
  \/ \E i \in 1..Len(retryTimers[Writer]) : RetryFire(Writer, i)
  \/ \E a \in inflight[Writer] : Sign(Writer, a)
  \/ \E a \in inflight[Writer] : Ack(Writer, a)
  \/ \E a \in inflight[Writer] : Reject(Writer, a)
  \/ \E d \in {TickStep} \cup ArmedTimers : Tick(d)

SpecRetry == InitRetry /\ [][NextRetry]_vars

\* One store that publishes to two relays, each of which answers every
\* attempt for itself: a first write, and further writes while a retry is
\* pending.
NextRelays ==
  \/ \E k \in OneKey, v \in WriterValues :
        /\ hist[Writer].ops = 0 \/ retryTimers[Writer] # <<>>
        /\ SetCall(Writer, k, v, TRUE)
  \/ PersistDone(Writer)
  \/ DebounceFire(Writer)
  \/ \E i \in 1..Len(retryTimers[Writer]) : RetryFire(Writer, i)
  \/ \E a \in inflight[Writer] : Sign(Writer, a)
  \/ \E a \in inflight[Writer], r \in Relays, ok \in BOOLEAN : Reply(Writer, a, r, ok)
  \/ \E a \in inflight[Writer] : Published(Writer, a)
  \/ \E a \in inflight[Writer] : PublishFailed(Writer, a)
  \/ \E d \in ArmedTimers : Tick(d)

InitRelays == Init /\ maxRetryCount = 2

SpecRelays == InitRelays /\ [][NextRelays]_vars

\* One store that never gives up and whose relays accept nothing: every
\* attempt fails, up to MaxBackoff failures in a row.
InitBackoff == Init /\ maxRetryCount = 0

NextBackoff ==
  \/ \E k \in OneKey, v \in WriterValues : SetCall(Writer, k, v, TRUE)
  \/ PersistDone(Writer)
  \/ DebounceFire(Writer)
  \/ \E i \in 1..Len(retryTimers[Writer]) : RetryFire(Writer, i)
  \/ \E a \in inflight[Writer] : Sign(Writer, a)
  \/ \E a \in inflight[Writer] :
        publishRetryCount[Writer] < MaxBackoff /\ Catch(Writer, a)
  \/ \E d \in ArmedTimers : Tick(d)

SpecBackoff == InitBackoff /\ [][NextBackoff]_vars

\* A store whose caller writes once a key of its own and a key with the
\* internal prefix, whose publishes are accepted, and which is sent, one after the
\* other, events that hold entries under internal keys.
NextMeta ==
  \/ \E k \in {KeySeq[1], MetaKey}, v \in WriterValues :
        hist[Reader].wrote[k].n = 0 /\ SetCall(Reader, k, v, TRUE)
  \/ PersistDone(Reader)
  \/ DebounceFire(Reader)
  \/ \E a \in inflight[Reader] : Sign(Reader, a)
  \/ \E a \in inflight[Reader] : Ack(Reader, a)
  \/ \E e \in InternalEvents :
        /\ inbox[Reader] = {} /\ handlers[Reader] = {}
        /\ Deliver(Reader, e)
  \/ \E e \in inbox[Reader] : OnEvent(Reader, e)
  \/ \E h \in handlers[Reader] : Decrypted(Reader, h)
  \/ \E h \in handlers[Reader] : Compare(Reader, h)
  \/ \E h \in handlers[Reader] : AfterPut(Reader, h)
  \/ \E h \in handlers[Reader] : Notify(Reader, h)
  \/ \E d \in ArmedTimers : Tick(d)

InitMeta == InitWith({Reader}) /\ maxRetryCount = 0

SpecMeta == InitMeta /\ [][NextMeta]_vars

\* One store whose publishes may fail, on a device whose wall clock moves
\* with its timers; reading the entries and encrypting them takes no
\* measurable time.
Prompt == \A s \in Stores : \A a \in inflight[s] : a.phase # "built"

InitStamp == Init /\ maxRetryCount = 0

NextStamp ==
  \/ \E k \in OneKey, v \in WriterValues : SetCall(Writer, k, v, TRUE)
  \/ PersistDone(Writer)
  \/ DebounceFire(Writer)
  \/ \E i \in 1..Len(retryTimers[Writer]) : RetryFire(Writer, i)
  \/ \E a \in inflight[Writer] : Sign(Writer, a)
  \/ \E a \in inflight[Writer] : Ack(Writer, a)
  \/ \E a \in inflight[Writer] : Reject(Writer, a)
  \/ \E d \in ArmedTimers : Prompt /\ Elapse(d)

SpecStamp == InitStamp /\ [][NextStamp]_vars

\* the events of E stamped by a clock like the stores' own
Timely(E) == {e \in E : e.createdAt # FarAhead}

\* onevent and its continuations in store s
Handle(s) ==
  \/ \E e \in inbox[s] : OnEvent(s, e)
  \/ \E h \in handlers[s] : Decrypted(s, h)
  \/ \E h \in handlers[s] : Compare(s, h)
  \/ \E h \in handlers[s] : AfterPut(s, h)
  \/ \E h \in handlers[s] : Notify(s, h)

\* A store that is sent the events of a writer outside the model and its own,
\* ...
NextStray ==
  \/ \E e \in OutsideEvents \cup Echoes(Reader) : Deliver(Reader, e)
  \/ Handle(Reader)

InitStray == InitWith({Reader}) /\ maxRetryCount = 0

\* ... whose device's clock moves on, and which is created again on its
\* database
NextCursor ==
  \/ NextStray
  \/ ClockTick(Reader)
  \/ CreateStore(Reader)

SpecCursor == InitStray /\ [][NextCursor]_vars

\* ... with its onChange callbacks and its onReceive() promises, when every
\* event is stamped by a clock like the store's own
NextDiscard ==
  \/ \E e \in Timely(OutsideEvents \cup Echoes(Reader)) : Deliver(Reader, e)
  \/ Handle(Reader)
  \/ OnChange(Reader, FALSE, FALSE)
  \/ OnReceive(Reader)

SpecDiscard == InitStray /\ [][NextDiscard]_vars

\* A store with onChange callbacks that is sent one event of the outside
\* writer, and the same event again once it has processed it.
NextAgain ==
  \/ \E e \in NullEvents \cup Timely(OutsideEvents) :
        /\ e.readable /\ e.d = namespace
        /\ inbox[Reader] = {} /\ handlers[Reader] = {}
        /\ hist[Reader].delivered = 0 \/ e \in hist[Reader].seen
        /\ Deliver(Reader, e)
  \/ Handle(Reader)
  \/ OnChange(Reader, FALSE, FALSE)

SpecAgain == InitStray /\ [][NextAgain]_vars

\* A store that writes once and publishes while it is sent the readable
\* events of a writer outside the model, one after the other.
NextQuiet ==
  \/ \E k \in OneKey, v \in WriterValues :
        hist[Reader].ops = 0 /\ SetCall(Reader, k, v, TRUE)
  \/ PersistDone(Reader)
  \/ ClockTick(Reader)
  \/ DebounceFire(Reader)
  \/ \E i \in 1..Len(retryTimers[Reader]) : RetryFire(Reader, i)
  \/ \E a \in inflight[Reader] : Sign(Reader, a)
  \/ \E a \in inflight[Reader] : Ack(Reader, a)
  \/ \E a \in inflight[Reader] : Reject(Reader, a)
  \/ \E e \in Timely(OutsideEvents) :
        /\ e.readable /\ e.d = namespace
        /\ inbox[Reader] = {} /\ handlers[Reader] = {}
        /\ Deliver(Reader, e)
  \/ Handle(Reader)
  \/ \E d \in ArmedTimers : Tick(d)

InitQuiet == InitWith({Reader}) /\ maxRetryCount = 2

SpecQuiet == InitQuiet /\ [][NextQuiet]_vars

\* A writer that sets each key once and whose publishes succeed, and a peer
\* that receives.
InitListen == InitWith(Pair) /\ maxRetryCount = 0

NextFeed ==
  \/ \E k \in Keys, v \in WriterValues :
        hist[Writer].wrote[k].n = 0 /\ SetCall(Writer, k, v, TRUE)
  \/ PersistDone(Writer)
  \/ DebounceFire(Writer)
  \/ \E a \in inflight[Writer] : Sign(Writer, a)
  \/ \E a \in inflight[Writer] : Ack(Writer, a)
  \/ \E e \in inbox[Reader] : OnEvent(Reader, e)
  \/ \E h \in handlers[Reader] : Decrypted(Reader, h)
  \/ \E h \in handlers[Reader] : Compare(Reader, h)
  \/ \E h \in handlers[Reader] : AfterPut(Reader, h)
  \/ \E h \in handlers[Reader] : Notify(Reader, h)
  \/ \E d \in ArmedTimers : Tick(d)

\* ... with the peer's onChange callbacks and one-shot onChange() promises
NextListen ==
  \/ NextFeed
  \/ \E once \in BOOLEAN, throws \in BOOLEAN : OnChange(Reader, once, throws)
  \/ \E id \in hist[Reader].registered : Unsubscribe(Reader, id)

SpecListen == InitListen /\ [][NextListen]_vars

\* A writer that sets each key once and whose publishes succeed, and a peer
\* that receives one event at a time, with its onChange callbacks and their
\* unsubscribe functions.
NextUnsubscribe ==
  \/ \E k \in Keys, v \in WriterValues :
        hist[Writer].wrote[k].n = 0 /\ SetCall(Writer, k, v, TRUE)
  \/ PersistDone(Writer)
  \/ DebounceFire(Writer)
  \/ \E a \in inflight[Writer] : Sign(Writer, a)
  \/ \E a \in inflight[Writer] : Ack(Writer, a)
  \/ \E e \in inbox[Reader] : handlers[Reader] = {} /\ OnEvent(Reader, e)
  \/ \E h \in handlers[Reader] : Decrypted(Reader, h)
  \/ \E h \in handlers[Reader] : Compare(Reader, h)
  \/ \E h \in handlers[Reader] : AfterPut(Reader, h)
  \/ \E h \in handlers[Reader] : Notify(Reader, h)
  \/ \E once \in BOOLEAN, throws \in BOOLEAN : OnChange(Reader, once, throws)
  \/ \E id \in hist[Reader].registered : Unsubscribe(Reader, id)
  \/ \E d \in ArmedTimers : Tick(d)

SpecUnsubscribe == InitListen /\ [][NextUnsubscribe]_vars

\* ... with the peer's onReceive() promises
NextReceive == NextFeed \/ OnReceive(Reader)

SpecReceive == InitListen /\ [][NextReceive]_vars

\* Two writers that set one key once each, on devices whose clocks differ,
\* and a store that is created later, on an empty database.
Writers == {"A", "C"}

InitJoin == InitWith(Writers) /\ maxRetryCount = 0

NextJoin ==
  \/ \E s \in Writers, k \in OneKey, v \in Values :
        hist[s].ops = 0 /\ SetCall(s, k, v, TRUE)
  \/ \E s \in Writers : PersistDone(s)
  \/ \E s \in Writers : ClockTick(s)
  \/ \E s \in Writers : DebounceFire(s)
  \/ \E s \in Writers : \E a \in inflight[s] : Sign(s, a)
  \/ \E s \in Writers : \E a \in inflight[s] : Ack(s, a)
  \/ CreateStore(Reader)
  \/ \E e \in inbox[Reader] : OnEvent(Reader, e)
  \/ \E h \in handlers[Reader] : Decrypted(Reader, h)
  \/ \E h \in handlers[Reader] : Compare(Reader, h)
  \/ \E h \in handlers[Reader] : AfterPut(Reader, h)
  \/ \E h \in handlers[Reader] : Notify(Reader, h)
  \/ \E d \in ArmedTimers : Tick(d)

SpecJoin == InitJoin /\ [][NextJoin]_vars

\* A writer, and createStore called for a second store with a namespace or
\* without one.
InitCreate == InitWith({Writer}) /\ maxRetryCount = 0

NextCreate ==
  \/ \E k \in Keys, v \in WriterValues :
        hist[Writer].wrote[k].n = 0 /\ SetCall(Writer, k, v, TRUE)
  \/ PersistDone(Writer)
  \/ ClockTick(Writer)
  \/ DebounceFire(Writer)
  \/ \E a \in inflight[Writer] : Sign(Writer, a)
  \/ \E a \in inflight[Writer] : Ack(Writer, a)
  \/ \E ns \in {namespace, Undefined} : CreateStoreWith(Reader, ns)
  \/ \E e \in inbox[Reader] : OnEvent(Reader, e)
  \/ \E h \in handlers[Reader] : Decrypted(Reader, h)
  \/ \E h \in handlers[Reader] : Compare(Reader, h)
  \/ \E h \in handlers[Reader] : AfterPut(Reader, h)
  \/ \E h \in handlers[Reader] : Notify(Reader, h)
  \/ \E d \in ArmedTimers : Tick(d)

SpecCreate == InitCreate /\ [][NextCreate]_vars

\* The scheduler of one store, with close().
NextClose == NextSched \/ Close(Writer)

SpecClose == Init /\ [][NextClose]_vars

\* ------------------------------------------------------------------ claims

\* store a has processed to the end a snapshot that store b took after its
\* write number w
SawSnapshot(a, b, w) == \E e \in hist[a].seen : e.author = b /\ e.seq >= w

\* C1 (LWW convergence).  If store a set key k once, to v1 at t1, and store b
\* set k once, to v2 at t2 > t1, and each has processed a snapshot the other
\* published after its write, then get(k) is v2 on both stores.
C1_LwwConvergence ==
  \A a \in Stores, b \in Stores, k \in Keys :
    LET wa == hist[a].wrote[k]
        wb == hist[b].wrote[k]
    IN (/\ a # b
        /\ wa.n = 1 /\ wa.entry # Absent
        /\ wb.n = 1 /\ wb.entry # Absent
        /\ wb.entry.lastModified > wa.entry.lastModified
        /\ SawSnapshot(a, b, wb.w)
        /\ SawSnapshot(b, a, wa.w))
       => Get(a, k) = wb.entry.value /\ Get(b, k) = wb.entry.value

\* store s has nothing left to do: no local write, timer, publish attempt or
\* event is pending
AtRest(s) ==
  /\ writeq[s] = <<>>
  /\ debounceTimer[s] = -1
  /\ retryTimers[s] = <<>>
  /\ inflight[s] = {}
  /\ inbox[s] = {}
  /\ handlers[s] = {}

\* the last publish of every writer has succeeded (its live event holds all
\* its writes) and every store has processed the live event of every other
\* writer
AllExchanged ==
  \A s \in {x \in Stores : subscribed[x]} :
    /\ AtRest(s)
    /\ hist[s].writes > 0 => relay[s].seq = hist[s].writes
    /\ \A o \in Stores \ {s} : relay[o] # NoEvent => relay[o] \in hist[s].seen

C3_LocalDurability ==
  \A s \in Stores, k \in Keys :
    durable[s][k].resolved => Get(s, k) = durable[s][k].value

\* C4 (single flight).  At most one publish attempt of a store is in flight
\* at any time.
C4_SingleFlight == \A s \in Stores : Cardinality(inflight[s]) <= 1

\* The scheduler with the event loop's guarantees: a timer that has expired
\* is run, and time goes on, from one timer expiry to the next.
NextSchedFair ==
  \/ \E k \in OneKey, v \in WriterValues, ok \in BOOLEAN : SetCall(Writer, k, v, ok)
  \/ \E k \in OneKey, ok \in BOOLEAN : DelCall(Writer, k, ok)
  \/ PersistDone(Writer)
  \/ DebounceFire(Writer)
  \/ \E i \in 1..Len(retryTimers[Writer]) : RetryFire(Writer, i)
  \/ \E a \in inflight[Writer] : Sign(Writer, a)
  \/ \E a \in inflight[Writer] : Ack(Writer, a)
  \/ \E a \in inflight[Writer] : Reject(Writer, a)
  \/ \E d \in ArmedTimers : Tick(d)

SpecSchedFair ==
  /\ Init /\ [][NextSchedFair]_vars
  /\ WF_vars(DebounceFire(Writer))
  /\ WF_vars(\E i \in 1..Len(retryTimers[Writer]) : RetryFire(Writer, i))
  /\ WF_vars(\E d \in ArmedTimers : Tick(d))

\* C5 (no dropped write).  If a local write resolves while a publish attempt
\* is in flight, a later attempt, whose snapshot is read after that write was
\* stored, is eventually started.
C5_NoDroppedWrite == hist[Writer].owed ~> ~hist[Writer].owed

\* a follow-up attempt has been started for a write that resolved during an
\* earlier attempt
C5_Witness == hist[Writer].followUps > 0 /\ hist[Writer].attempts >= 2

\* C6 (sync covers prior writes).  When the sync promise is resolved, the
\* attempt that resolves it took its snapshot after every write made before
\* (a sync() called after any of them returns this promise).
C6_SyncCoversWrites ==
  \A s \in Stores :
    hist[s].resTrue + hist[s].resFalse > 0 => hist[s].resSnap >= hist[s].resWrites

\* the one attempt of a burst: started debounce ms after the last local write
\* resolved, with a snapshot that holds every write of the burst
OneAttempt(s, b) ==
  /\ b.fires <= 1
  /\ b.fires = 1 => b.delay = debounce /\ b.snap >= b.last
  /\ (writeq[s] = <<>> /\ debounceTimer[s] = -1) => b.fires = 1

\* C7 (debounce coalescing), as stated.  N >= 1 set/del calls on an idle
\* store, consecutive calls less than debounce ms apart, start exactly one
\* publish attempt, debounce ms after the last write resolved, and its
\* snapshot holds all N writes.
C7_CoalesceByCalls ==
  \A s \in Stores : hist[s].callBurst.n > 0 => OneAttempt(s, hist[s].callBurst)

\* C7 (debounce coalescing), amended.  N >= 1 local writes that resolve on a
\* store with no timer, attempt or retry pending, each resolving before the
\* timer armed by the previous one fires, make the debounce timer start
\* exactly one publish attempt, debounce ms after the last of them resolved,
\* and its snapshot holds all N writes.
C7_CoalesceByPersists ==
  \A s \in Stores : hist[s].persistBurst.n > 0 => OneAttempt(s, hist[s].persistBurst)

\* two writes were coalesced into one attempt
C7_Witness ==
  LET b == hist[Writer].persistBurst
  IN b.n = 2 /\ b.fires = 1 /\ hist[Writer].attempts = 1

\* C8 (sync with nothing pending).  With no write awaiting publication and no
\* attempt in flight, sync() resolves at once with true: there is no pending
\* sync promise.
C8_SyncImmediate == \A s \in Stores : SchedIdle(s) => ~syncPromise[s]

\* C9 (retry exhaustion).  With maxRetryCount = N >= 1 and relays that never
\* acknowledge, a write has publishToNostr run at most N times, after which
\* the sync promise is resolved false: it is never resolved true, and it does
\* not stay pending for a resolved write once nothing is left to run.
C9_RetryExhaustion ==
  \A s \in Stores :
    (maxRetryCount >= 1 /\ hist[s].acks = 0) =>
      /\ hist[s].attempts <= maxRetryCount * hist[s].fires
      /\ hist[s].resTrue = 0
      /\ hist[s].awaited => ~SchedIdle(s)
      /\ (hist[s].fires > 0 /\ SchedIdle(s)) => hist[s].resFalse > 0

\* N = 2 attempts have failed and sync() has resolved false
C9_Witness ==
  /\ maxRetryCount = 2
  /\ hist[Writer].attempts = 2
  /\ hist[Writer].acks = 0
  /\ hist[Writer].resFalse = 1
  /\ SchedIdle(Writer)

\* C10 (unlimited retries).  With maxRetryCount = 0 the store never gives up:
\* every failed attempt is followed by a retry, the sync promise is never
\* resolved false, and an acknowledged attempt resolves it true.
C10_UnlimitedRetries ==
  \A s \in Stores :
    maxRetryCount = 0 =>
      /\ hist[s].resFalse = 0
      /\ Cardinality(inflight[s]) + Len(retryTimers[s]) = hist[s].fires - hist[s].acks
      /\ hist[s].acks > 0 => hist[s].resTrue > 0
      /\ hist[s].awaited => ~SchedIdle(s)

\* two failures, then the retry is acknowledged and sync() resolves true
C10_Witness ==
  /\ maxRetryCount = 0
  /\ hist[Writer].attempts = 3
  /\ hist[Writer].fires = 1
  /\ hist[Writer].resTrue = 1

\* C11 (tombstone propagation).  After store a has called del(k), its publish
\* of a snapshot taken after the del has succeeded and peer b, which never
\* wrote k itself, has processed that snapshot, get(k) is undefined on b.
C11_TombstonePropagation ==
  \A a \in Stores, b \in Stores, k \in Keys :
    LET wa == hist[a].wrote[k]
    IN (/\ a # b
        /\ wa.n >= 1 /\ wa.entry = Absent
        /\ hist[b].wrote[k].n = 0
        /\ SawSnapshot(b, a, wa.w))
       => Get(b, k) = Undefined

\* C12 (no resurrection).  After del(k) at time td, get(k) stays undefined
\* until k is set again or a remote entry for k with lastModified >= td is
\* merged: a remote snapshot that carries k with lastModified < td does not
\* bring the key back.
C12_NoResurrection ==
  \A s \in Stores, k \in Keys :
    durable[s][k].deletedAt >= 0 => Get(s, k) = Undefined

\* C20 (close stops publishing).  After close() the store starts no further
\* publish attempt, even if a debounce or retry timer was armed.
C20_CloseStopsPublishing ==
  \A s \in Stores : hist[s].closedAt >= 0 => hist[s].attempts = hist[s].closedAt

\* store s has handled every event delivered to it
Processed(s) == inbox[s] = {} /\ handlers[s] = {}

\* C13 (offline, then catch-up).  A key the writer has set once, whether or not
\* its publishes failed at the time and whether or not its store was created
\* again since, is held with the writer's value by a peer that wrote nothing
\* itself, once the peer has processed the events delivered to it, among
\* them a snapshot the writer took after that set.
C13_OfflineCatchUp ==
  \A k \in Keys :
    LET wa == hist[Writer].wrote[k]
    IN (/\ wa.n = 1 /\ wa.entry # Absent
        /\ hist[Reader].ops = 0
        /\ Processed(Reader)
        /\ SawSnapshot(Reader, Writer, wa.w))
       => Get(Reader, k) = wa.entry.value

\* two keys set while every publish failed; the store was created again, a
\* later publish succeeded and the peer holds both keys
C13_Witness ==
  /\ hist[Writer].fails >= 1
  /\ hist[Writer].creates = 1
  /\ \A k \in Keys : hist[Writer].wrote[k].n = 1 /\ Get(Reader, k) \in Values
  /\ hist[Reader].ops = 0
  /\ Processed(Reader)

\* the entries for key k in the live events of the stores other than s
LiveEntries(s, k) ==
  {relay[o].data[k] : o \in {x \in Stores \ {s} : relay[x] # NoEvent}} \ {Absent}

\* C14 (late joiner).  A store created on an empty database, with no stored
\* cursor, that was sent the most recent snapshot of every other writer when
\* it subscribed and has processed them holds, for every key in those
\* snapshots, the entry with the greatest lastModified among them.
C14_LateJoiner ==
  (/\ subscribed[Reader]
   /\ hist[Reader].ops = 0
   /\ Processed(Reader)
   /\ \A o \in Stores \ {Reader} :
        relay[o] # NoEvent =>
          relay[o] \in hist[Reader].backlog /\ relay[o] \in hist[Reader].seen)
  => \A k \in Keys :
       LiveEntries(Reader, k) # {} =>
         /\ db[Reader][k] \in LiveEntries(Reader, k)
         /\ \A c \in LiveEntries(Reader, k) : c.lastModified <= db[Reader][k].lastModified

\* The ids of the callbacks of the array list
Ids(list) == {list[i].id : i \in 1..Len(list)}

\* How many times the callback id was called in the notification n
Calls(n, id) == Cardinality({i \in 1..Len(n.called) : n.called[i] = id})

\* No callback of the notification n throws
Quiet(n) == \A i \in 1..Len(n.registered) : ~n.registered[i].throws

\* C15: when an applied remote event has changed a key, every callback
\* registered with onChange(callback) is invoked exactly once for that key,
\* also when one-shot onChange() promises are pending beside it (callbacks
\* that throw are left to C16).
C15_EveryCallbackOnce ==
  \A s \in Stores :
    LET n == hist[s].lastNotify
    IN Quiet(n) =>
         \A i \in 1..Len(n.registered) :
           ~n.registered[i].once => Calls(n, n.registered[i].id) = 1

\* C16: a callback that throws does not keep the other registered callbacks
\* from being invoked, for that key and for the remaining changed keys.
C16_ObserverIsolation ==
  \A s \in Stores :
    LET n == hist[s].lastNotify
    IN n.threw =>
         /\ \A i \in 1..Len(n.registered) : Calls(n, n.registered[i].id) = 1
         /\ Len(n.registered) > 1 => n.dropped = <<>>

\* C17: every pending one-shot onChange() promise is resolved with the first
\* changed key of the next event that changes something.
C17_OneShotFirstPair ==
  \A s \in Stores :
    LET n == hist[s].lastNotify
    IN n.first /\ Quiet(n) =>
         \A i \in 1..Len(n.registered) :
           n.registered[i].once => Calls(n, n.registered[i].id) = 1

\* C18: when the store has finished processing an event of another writer,
\* no onReceive() promise is left pending.
C18_ReceiveResolved == \A s \in Stores : hist[s].recvStale = 0

Stamped(s) == {a \in inflight[s] : a.phase = "sent"}

\* C21: of two publish attempts of one store, the later one carries the
\* greater createdAt (debounce is DEFAULT_DEBOUNCE and the wall clock moves
\* with the timers).
C21_IncreasingCreatedAt ==
  \A s \in Stores :
    \A a, b \in Stamped(s) : a.id < b.id => a.createdAt < b.createdAt

\* C22: the value stored under LAST_SYNC_KEY is the cursor, so that a store
\* created again on the database starts from the highest createdAt processed.
C22_CursorRoundTrip == \A s \in Stores : metaLastSync[s] = lastSyncTime[s]

\* C23: the cursor of a store never becomes smaller, whatever events arrive
\* in whatever order and also when the store is created again on its database.
C23_CursorMonotonic ==
  [][\A s \in Stores : lastSyncTime'[s] >= lastSyncTime[s]]_vars

\* createdAt of the newest event that store s has processed to the end
NewestSeen(s) ==
  IF hist[s].seen = {} THEN 0
  ELSE CHOOSE t \in {e.createdAt : e \in hist[s].seen} :
         \A e \in hist[s].seen : e.createdAt <= t

\* C29: when no event is being processed, the cursor is not beyond the
\* createdAt of the newest event that was processed to the end; an event
\* that could not be decrypted has not advanced it.
C29_CursorBehindProcessed ==
  \A s \in Stores : handlers[s] = {} => lastSyncTime[s] <= NewestSeen(s)

\* C24: a key that has an entry in the local database has one in every later
\* state; del and the merge of a remote tombstone leave an entry.
C24_EntriesNeverRemoved ==
  [][\A s \in Stores : \A k \in Keys :
       db[s][k] # Absent => db'[s][k] # Absent]_vars

\* C25: a createStore call without a namespace touches nothing: no
\* subscription is opened, no timer is armed, the database is not touched.
C25_NamespaceRequired ==
  [][\A s \in Stores :
       hist'[s].unnamed > hist[s].unnamed =>
         UNCHANGED <<db, subscribed, inbox, debounceTimer, retryTimers,
                     lastSyncTime, metaLastSync, handlers>>]_vars

\* createStore was called without a namespace while there were events to
\* receive, and the store does not exist
C25_Witness ==
  /\ hist[Reader].unnamed > 0
  /\ ~subscribed[Reader]
  /\ relay[Writer] # NoEvent

\* C26: processing a remote event overwrites the local entry of a key only
\* if the remote lastModified is strictly greater than that of the local
\* entry (no entry: minus infinity).
C26_MergeRule ==
  [][\A s \in Stores : \A k \in Keys :
       hist'[s].ops = hist[s].ops /\ db'[s][k] # db[s][k] =>
         db'[s][k].lastModified > db[s][k].lastModified]_vars

\* What an onevent call can change for the application: the entries, the
\* cursor, the running calls, the callbacks' notifications and the pending
\* onReceive promise
Touched(s) == <<db[s], lastSyncTime[s], metaLastSync[s], handlers[s],
                receiveResolve[s], hist[s].lastNotify, hist[s].recvPending>>

\* C27: an onevent call with an event of the store itself or of another
\* namespace changes no entry and not the cursor, calls no onChange callback
\* and resolves no onReceive promise.
C27_StrayDiscarded ==
  [][\A s \in Stores :
       hist'[s].strays > hist[s].strays => Touched(s)' = Touched(s)]_vars

\* events of the store itself and of another namespace were discarded while
\* a callback was registered and an onReceive promise was pending, which it
\* still is
C27_Witness ==
  /\ hist[Reader].strays >= 2
  /\ inbox[Reader] = {}
  /\ changeListeners[Reader] # <<>>
  /\ receiveResolve[Reader]

\* C28: an event whose content cannot be decrypted is never merged: its
\* onevent call ends after decryptData, and the end changes no entry, calls no
\* callback and leaves the subscription and the events still to be processed
\* as they are.
C28_GarbledDiscarded ==
  [][\A s \in Stores :
       /\ \A h \in handlers'[s] : ~h.ev.readable => h.pc = "decrypt"
       /\ hist'[s].garbled # hist[s].garbled =>
            /\ db'[s] = db[s]
            /\ hist'[s].lastNotify = hist[s].lastNotify
            /\ subscribed'[s] = subscribed[s]
            /\ inbox'[s] = inbox[s]
            /\ handlers'[s] \subseteq handlers[s]]_vars

\* an event that could not be decrypted was discarded while a callback was
\* registered, and an event that arrived after it is being merged
C28_Witness ==
  /\ hist[Reader].garbled > 0
  /\ changeListeners[Reader] # <<>>
  /\ \E h \in handlers[Reader] : h.id > hist[Reader].garbled /\ h.pc = "put"

\* C30: the snapshot of every publish attempt, retries included, is read
\* when the attempt starts: for every key, it holds what the last set or del
\* before the start of the attempt has written.
C30_FreshSnapshot ==
  \A s \in Stores : \A a \in inflight[s] : \A k \in Keys :
    LET l == hist[s].wrote[k]
    IN l.n > 0 /\ l.w <= a.seq => a.data[k] = l.entry

\* the second attempt is the retry of the first, and its snapshot holds the
\* second write, which was made and has resolved after the first had failed
C30_Witness ==
  /\ hist[Writer].attempts = 2
  /\ hist[Writer].fires = 1
  /\ hist[Writer].persisted = 2
  /\ \E a \in inflight[Writer] :
       /\ a.id = 2
       /\ a.seq = 2
       /\ \E k \in Keys : hist[Writer].wrote[k].w = 2
                            /\ a.data[k] = hist[Writer].wrote[k].entry
                            /\ a.data[k] # Absent

\* what the relays have answered to attempt n of store s
Answers(s, n) == {x \in hist[s].replied : x[1] = n}

\* C31 (partial success).  When the await of an attempt sent to several
\* relays ends, the attempt is a success (retryCount 0, the sync promise
\* resolved true) if at least one relay has accepted it, and a failure if
\* none has; it fails only after every relay has refused or was unreachable.
C31_PartialSuccess ==
  [][\A s \in Stores : \A a \in inflight[s] :
       (\A b \in inflight'[s] : b.id # a.id) =>
         LET accepted == \E r \in Relays : a.replies[r] = "ok"
             success == /\ hist'[s].acks = hist[s].acks + 1
                        /\ hist'[s].fails = hist[s].fails
                        /\ publishRetryCount'[s] = 0
                        /\ syncPromise'[s] = FALSE
                        /\ hist'[s].resTrue =
                             hist[s].resTrue + (IF syncPromise[s] THEN 1 ELSE 0)
                        /\ hist'[s].resFalse = hist[s].resFalse
             failure == /\ hist'[s].fails = hist[s].fails + 1
                        /\ hist'[s].acks = hist[s].acks
                        /\ hist'[s].resTrue = hist[s].resTrue
         IN /\ accepted => success
            /\ ~accepted => failure /\ \A r \in Relays : a.replies[r] = "fail"]_vars

\* the first attempt was refused by one relay and accepted by the other, and
\* sync() has resolved true
C31_Witness ==
  /\ hist[Writer].attempts = 1
  /\ <<1, "r1", FALSE>> \in Answers(Writer, 1)
  /\ <<1, "r2", TRUE>> \in Answers(Writer, 1)
  /\ hist[Writer].acks = 1
  /\ hist[Writer].resTrue = 1
  /\ publishRetryCount[Writer] = 0
  /\ inflight[Writer] = {}

\* the timer that the step has armed last
Armed(s) == retryTimers'[s][Len(retryTimers'[s])]

\* C32 (backoff schedule).  The k-th failed attempt in a row that is followed
\* by a retry arms the retry timer with min(1000 * 2^(k-1), maxRetryDelay)
\* milliseconds, which is at least the delay of the failure before it and at
\* most maxRetryDelay.
C32_BackoffSchedule ==
  [][\A s \in Stores :
       (hist'[s].fails = hist[s].fails + 1
          /\ Len(retryTimers'[s]) = Len(retryTimers[s]) + 1) =>
         LET k == hist'[s].fails
         IN /\ Armed(s) = Min(1000 * 2^(k - 1), maxRetryDelay)
            /\ Armed(s) <= maxRetryDelay
            /\ k > 1 => Armed(s) >= Min(1000 * 2^(k - 2), maxRetryDelay)]_vars

\* the seventh failure in a row has armed a retry at the cap
C32_Witness ==
  /\ hist[Writer].fails = 7
  /\ hist[Writer].acks = 0
  /\ publishRetryCount[Writer] = 7
  /\ maxRetryDelay \in SeqRange(retryTimers[Writer])

\* the step ends a publish cycle of s: an attempt is acknowledged, or fails
\* with the retry budget spent
Terminal(s) ==
  \/ hist'[s].acks = hist[s].acks + 1
  \/ hist'[s].fails = hist[s].fails + 1 /\ Len(retryTimers'[s]) = Len(retryTimers[s])

\* C33 (rest after a terminal outcome).  When an attempt is acknowledged, or
\* fails with the retry budget spent, retryCount is 0 and no retry timer is
\* armed any more, whatever was written during the cycle.
C33_RestAfterTerminal ==
  [][\A s \in Stores :
       Terminal(s) => publishRetryCount'[s] = 0 /\ retryTimers'[s] = <<>>]_vars

\* the step is one of an onevent call of s: an event is taken from the
\* subscription, or a call goes on or ends
Receiving(s) ==
  \/ \E e \in inbox[s] : e \notin inbox'[s]
  \/ handlers'[s] # handlers[s]

\* C34 (no publish from the receive path).  A step of an onevent call leaves
\* the debounce timer, the sync promise, retryCount, the retry timers and the
\* attempts of the store as they are, also when the event holds an entry
\* older than the local one.
C34_ReceiveNeverPublishes ==
  [][\A s \in Stores :
       Receiving(s) =>
         /\ debounceTimer'[s] = debounceTimer[s]
         /\ syncPromise'[s] = syncPromise[s]
         /\ publishRetryCount'[s] = publishRetryCount[s]
         /\ retryTimers'[s] = retryTimers[s]
         /\ inflight'[s] = inflight[s]
         /\ hist'[s].attempts = hist[s].attempts]_vars

\* an event with an entry older than the local one has been processed to the
\* end, and nothing waits to be published
C34_Witness ==
  /\ \E e \in hist[Reader].seen : \E k \in Keys :
        /\ e.data[k] # Absent
        /\ e.data[k].lastModified < db[Reader][k].lastModified
  /\ handlers[Reader] = {}
  /\ SchedIdle(Reader)
  /\ ~syncPromise[Reader]
  /\ hist[Reader].acks = 1

\* the snapshots of store s that are on their way to the relays or held by them
Snapshots(s) == {a.data : a \in inflight[s]} \cup {relay[s].data}

\* C35 (internal keys stay local).  No snapshot a store publishes holds an
\* entry under the cursor key or another key with the internal prefix, and no
\* step of an onevent call changes what is stored under such a key, except
\* for the cursor value that the call itself stores.
C35_InternalKeysStayLocal ==
  [][\A s \in Stores :
       /\ \A data \in Snapshots(s)' : \A k \in MetaKeys : data[k] = Absent
       /\ Receiving(s) =>
            /\ \A k \in MetaKeys : db'[s][k] = db[s][k]
            /\ metaLastSync'[s] \in {metaLastSync[s], clock[s]}]_vars

\* the store holds an entry under a key with the internal prefix and its
\* cursor, has published a snapshot, and has processed an event whose entries
\* under both internal keys are newer than what the store holds
C35_Witness ==
  /\ db[Reader][MetaKey] # Absent
  /\ metaLastSync[Reader] > 0
  /\ relay[Reader].data[KeySeq[1]] # Absent
  /\ hist[Reader].acks > 0
  /\ \E e \in hist[Reader].seen :
        /\ e.data[LAST_SYNC_KEY] # Absent
        /\ e.data[MetaKey].lastModified > db[Reader][MetaKey].lastModified

\* C36 (lastModified never decreases).  Whatever the interleaving of set
\* calls with the steps of onevent calls, an entry that is stored under a key
\* is never replaced by an entry with a smaller lastModified.
C36_LastModifiedMonotone ==
  [][\A s \in Stores : \A k \in Keys :
       (db[s][k] # Absent /\ db'[s][k] # Absent) =>
         db'[s][k].lastModified >= db[s][k].lastModified]_vars

\* C37 (idempotent merge).  When an onevent call processes an event that the
\* store has processed to the end before, none of its steps changes a local
\* entry or calls an onChange callback, also when the event holds an entry
\* whose value is null.
C37_MergeIdempotent ==
  [][\A s \in Stores : \A h \in handlers[s] :
       (h.ev \in hist[s].seen /\ h \notin handlers'[s]) =>
         /\ db'[s] = db[s]
         /\ ~(h.pc = "notify" /\ changeListeners[s] # <<>>)]_vars

\* the step settles the oldest pending local write of s, which has failed
FailedWrite(s) ==
  /\ writeq[s] # <<>>
  /\ ~Head(writeq[s]).ok
  /\ writeq'[s] = Tail(writeq[s])

\* C38 (failed local write).  When the local write of a set or del fails, no
\* publish is scheduled for it and the scheduler is left as it was: if
\* nothing else is pending, no sync promise is left pending.
C38_FailedWriteLeavesNoTrace ==
  [][\A s \in Stores :
       FailedWrite(s) =>
         /\ debounceTimer'[s] = debounceTimer[s]
         /\ hist'[s].attempts = hist[s].attempts
         /\ SchedIdle(s)' => ~syncPromise'[s]]_vars

\* the step ends an onevent call of s
Ended(s) == \E h \in handlers[s] : \A g \in handlers'[s] : g.id # h.id

\* C39 (every onReceive promise resolves).  When an onevent call ends, no
\* promise returned by an earlier onReceive() call is pending any more: two
\* calls before the event are both resolved by it.
C39_AllReceiversResolved ==
  [][\A s \in Stores : Ended(s) => hist'[s].recvPending = 0]_vars

====
